---- MODULE Spec2Model ----
(***************************************************************************)
(* Hybrid data-backend router of the BankCanada MLOps platform:            *)
(*   api/services/credit_monitor.py     CreditMonitorService               *)
(*   api/services/databricks_service.py DatabricksService                  *)
(*   api/services/hybrid_database.py    HybridDatabaseService              *)
(*   api/routers/databricks.py          operational control surface        *)
(*                                                                         *)
(* Percentages are floats in the source.  They are modelled as integers    *)
(* counting hundredths of a percent (85% is 8500, 50.01% is 5001), which   *)
(* keeps every comparison of the source exact.                             *)
(***************************************************************************)
EXTENDS Integers, Sequences, FiniteSets, TLC

None == "None"

\* Value of a record-valued variable while it holds nothing.
Absent == [absent |-> TRUE]

\* n percent, in hundredths of a percent
Pct(n) == n * 100

\* Values of DATABRICKS_CREDIT_THRESHOLD the process may be started with
\* (float(os.getenv(...)) accepts any number, also 0 and values above 100).
Thresholds == {Pct(0), Pct(80), Pct(120)}

\* Arguments handed to simulate_credit_usage: the tier boundaries 50, 75
\* and 90, a value inside each tier (0 after clamping, 50.01, 85 -- the
\* scenario value --, 100 after clamping), and values outside [0,100].
Percents == {Pct(-5), Pct(50), 5001, Pct(75), Pct(85), Pct(90), Pct(150)}

\* The two CreditMonitorService instances of the process: the one owned by
\* the router (hybrid_db.credit_monitor) and the module-level one of the
\* control surface (routers/databricks.py: credit_monitor).
Monitors == {"hybrid", "global"}

MonthlyLimit == 100

\* Schemas handed to create_table, as the column types in column order:
\* a type that type_mapping lists, and a listed type in lower case next to
\* a name it does not list.
Schemas == {<<"STRING">>, <<"int", "exotic_type">>}

\* Query texts handed to execute_query, as their fragments in order: a
\* query without a Databricks-specific fragment, and one that holds each of
\* the three fragments _convert_to_postgresql looks for.
Queries ==
    {<<"SELECT * FROM t">>,
     <<"CREATE TABLE t (a INT) ", "USING DELTA", "; ", "OPTIMIZE", " t; ",
       "DESCRIBE EXTENDED", " t">>}

\* The environment the process is started in: DATABRICKS_HOST,
\* DATABRICKS_TOKEN and DATABRICKS_SQL_WAREHOUSE_ID all set, or one of them
\* missing.
Credentials ==
    {cr \in [host : BOOLEAN, token : BOOLEAN, warehouse_id : BOOLEAN] :
        Cardinality({f \in {"host", "token", "warehouse_id"} : ~cr[f]}) <= 1}

VARIABLES
    mon,                  \* mon[m]: fields of CreditMonitorService instance m
    databricks_available, \* HybridDatabaseService.databricks_available
    connection,           \* DatabricksService.connection is not None
    token,                \* DatabricksService.token is set
    host,                 \* DatabricksService.host is set
    warehouse_id,         \* DatabricksService.warehouse_id is set
    call,                 \* the operation that ran last: its name, the object
                          \* it ran on and its arguments
    invoked,              \* backends invoked by the last operation, in order
    result,               \* what execute_query returned to its caller
    created,              \* what create_table returned to its caller
    recs,                 \* what get_recommendations returned to its caller
    log,                  \* log records the monitor emitted in the last operation
    snap,                 \* value returned by the latest check_credit_usage
    status,               \* value returned by the latest get_status
    lastSim,              \* <<p>>: argument of the router's latest
                          \* simulate_credit_usage; <<>> when there was none or
                          \* the usage it set has been overwritten since
    lastSide,             \* lastSide[m]: side of the threshold the latest check
                          \* of m found credit_usage on; "unchecked" before the
                          \* first check and after a reset_fallback
    before,               \* fields of the monitor as reset_fallback found them
    schema,               \* column types of the schema handed to the last
                          \* create_table, in column order
    ddl,                  \* column types written into the CREATE TABLE
                          \* statement the last create_table built
    dbx,                  \* what DatabricksService.execute_query did in the
                          \* last operation that entered it
    lastConnect,          \* outcome of the connector's latest connect()
    query,                \* the query text handed to the last execute_query
    sent,                 \* the texts the backends were handed by the last
                          \* execute_query, in the order of invoked
    answer                \* what the last is_fallback_mode returned

vars == <<mon, databricks_available, connection, token, call, invoked,
          result, created, recs, log, snap, status, lastSim, lastSide, before,
          host, warehouse_id, schema, ddl, dbx, lastConnect, query, sent,
          answer>>

(***************************************************************************)
(* Python builtins                                                         *)
(***************************************************************************)
Max(a, b) == IF b > a THEN b ELSE a
Min(a, b) == IF b < a THEN b ELSE a

(***************************************************************************)
(* CreditMonitorService                                                    *)
(***************************************************************************)
WarnActivate    == [level |-> "warning", msg |-> "Activating fallback mode"]
InfoDeactivate  == [level |-> "info", msg |-> "Deactivating fallback mode"]
InfoSimulated   == [level |-> "info", msg |-> "Simulated credit usage set"]
InfoReset       == [level |-> "info", msg |-> "Fallback mode reset"]
ErrorMonitoring == [level |-> "error", msg |-> "Credit monitoring failed"]

\* CreditMonitorService.__init__
NewMonitor(thr) ==
    [threshold |-> thr, credit_usage |-> 0, fallback_mode |-> FALSE,
     monthly_limit |-> MonthlyLimit]

\* New value of fallback_mode (lines 40-47 of check_credit_usage)
FlagAfterCheck(ms) ==
    IF ms.credit_usage >= ms.threshold
    THEN (IF ~ms.fallback_mode THEN TRUE ELSE ms.fallback_mode)
    ELSE (IF ms.fallback_mode THEN FALSE ELSE ms.fallback_mode)

\* Variant of EventsOfCheck that logs on the level of the usage instead of on
\* the change of the flag.
EventsOfCheck_level_triggered(ms) ==
    IF ms.credit_usage >= ms.threshold
    THEN <<WarnActivate>>
    ELSE (IF ms.fallback_mode THEN <<InfoDeactivate>> ELSE <<>>)

\* Log records of check_credit_usage (lines 43 and 47)
EventsOfCheck(ms) ==
    IF ms.credit_usage >= ms.threshold
    THEN (IF ~ms.fallback_mode THEN <<WarnActivate>> ELSE <<>>)
    ELSE (IF ms.fallback_mode THEN <<InfoDeactivate>> ELSE <<>>)

\* Variant of UsageData that reports usage x limit as the credits used.
UsageData_unscaled(ms) ==
    [usage_percent |-> ms.credit_usage,
     credits_used  |-> ms.credit_usage * ms.monthly_limit,
     monthly_limit |-> ms.monthly_limit,
     fallback_mode |-> ms.fallback_mode,
     threshold     |-> ms.threshold,
     status        |-> "monitoring"]

\* usage_data is built from the fields as they are on entry, before the flag
\* is re-evaluated, and is returned as built.
UsageData(ms) ==
    [usage_percent |-> ms.credit_usage,
     credits_used  |-> (ms.credit_usage * ms.monthly_limit) \div 100,
     monthly_limit |-> ms.monthly_limit,
     fallback_mode |-> ms.fallback_mode,
     threshold     |-> ms.threshold,
     status        |-> "monitoring"]

check_credit_usage(ms) ==
    [mon |-> [ms EXCEPT !.fallback_mode = FlagAfterCheck(ms)],
     ret |-> UsageData(ms),
     log |-> EventsOfCheck(ms)]

\* Variant of Clamp without the lower bound.
Clamp_upper_only(p) == Min(Pct(100), p)

\* Variant of Clamp that bounds the usage from below only.
Clamp_lower_only(p) == Max(0, p)

\* max(0, min(100, usage_percent)) of simulate_credit_usage
Clamp(p) == Max(0, Min(Pct(100), p))

\* Variant of simulate_credit_usage that stores the usage and leaves the
\* flag to the next check.
simulate_credit_usage_unchecked(ms, p) ==
    LET set == [ms EXCEPT !.credit_usage = Clamp(p)]
    IN  [mon |-> set, checked |-> UsageData(set), log |-> <<InfoSimulated>>]

simulate_credit_usage(ms, p) ==
    LET set == [ms EXCEPT !.credit_usage = Clamp(p)]
        chk == check_credit_usage(set)
    IN  [mon |-> chk.mon, checked |-> chk.ret,
         log |-> chk.log \o <<InfoSimulated>>]

\* Where the try block of check_credit_usage can raise: while usage_data is
\* built (lines 30-37, before the flag is looked at) or in the logger call
\* that follows an assignment of the flag (lines 43 and 47).
RaisePoints == {"usage_data", "logger"}

\* check_credit_usage when its try block raises at point at: the except
\* branch (lines 51-53) logs the error and returns the dictionary written
\* there; it assigns no field of the monitor.
check_credit_usage_raising(ms, at) ==
    [mon |-> IF at = "logger"
             THEN [ms EXCEPT !.fallback_mode = FlagAfterCheck(ms)]
             ELSE ms,
     ret |-> [usage_percent |-> Pct(100), fallback_mode |-> TRUE,
              error |-> "str(e)"],
     log |-> <<ErrorMonitoring>>]

\* Variant of is_fallback_mode that works the flag out from the usage.
is_fallback_mode_recomputing(ms) == ms.credit_usage >= ms.threshold

\* CreditMonitorService.is_fallback_mode
is_fallback_mode(ms) == ms.fallback_mode

\* Variant of reset_fallback that clears the flag and keeps the usage.
reset_fallback_flag_only(ms) ==
    [mon |-> [ms EXCEPT !.fallback_mode = FALSE],
     log |-> <<InfoReset>>]

reset_fallback(ms) ==
    [mon |-> [ms EXCEPT !.fallback_mode = FALSE, !.credit_usage = 0],
     log |-> <<InfoReset>>]

Critical == "Critical: Consider pausing non-essential workloads"
Warning  == "Warning: Approaching credit limit - optimize queries"
Monitor  == "Monitor: Track usage more frequently"
Normal   == "Normal: Usage within expected range"

\* Variant of get_recommendations with inclusive comparisons.
get_recommendations_inclusive(ms) ==
    IF ms.credit_usage >= Pct(90) THEN <<Critical>>
    ELSE IF ms.credit_usage >= Pct(75) THEN <<Warning>>
    ELSE IF ms.credit_usage >= Pct(50) THEN <<Monitor>>
    ELSE <<Normal>>

get_recommendations(ms) ==
    IF ms.credit_usage > Pct(90) THEN <<Critical>>
    ELSE IF ms.credit_usage > Pct(75) THEN <<Warning>>
    ELSE IF ms.credit_usage > Pct(50) THEN <<Monitor>>
    ELSE <<Normal>>

(***************************************************************************)
(* DatabricksService                                                       *)
(***************************************************************************)
\* What the Databricks client library does when connect() reaches it:
\* the import or sql.connect raises (both leave self.connection as it was and
\* return False), sql.connect succeeds and WorkspaceClient raises, or both
\* succeed.
ConnectOutcomes == {"ok", "connect_error", "client_error"}

\* What cursor()/execute()/description/fetchall() do: rows come back or one
\* of them raises.
QueryOutcomes == {"rows", "error"}

\* What the SQLAlchemy session does: rows with keys, a result without keys,
\* or execute()/commit() raises.
PgOutcomes == {"rows", "no_keys", "error"}

\* What the client library can do for a connector holding these credentials:
\* sql.connect is handed server_hostname=self.host and an http_path built
\* from self.warehouse_id; without a host or a warehouse there is no endpoint
\* to open a session with and it raises.
LibraryOutcomes(hst, wh) ==
    IF hst /\ wh THEN ConnectOutcomes ELSE {"connect_error"}

\* Variant of connect that reports success although sql.connect raised.
connect_reporting_success(conn, tok, co) ==
    IF ~tok THEN [connection |-> conn, ret |-> FALSE]
    ELSE IF co = "connect_error" THEN [connection |-> conn, ret |-> TRUE]
    ELSE IF co = "client_error" THEN [connection |-> TRUE, ret |-> FALSE]
    ELSE [connection |-> TRUE, ret |-> TRUE]

\* Variant of connect that goes to the library without looking at the token.
connect_without_token_check(conn, tok, co) ==
    IF co = "connect_error" THEN [connection |-> conn, ret |-> FALSE]
    ELSE IF co = "client_error" THEN [connection |-> TRUE, ret |-> FALSE]
    ELSE [connection |-> TRUE, ret |-> TRUE]

\* What the session does with the DDL of _create_postgresql_table:
\* execute() and commit() go through, or one of them raises.
PgDdlOutcomes == {"committed", "error"}

\* DatabricksService.connect: conn is "self.connection is not None" on entry.
connect(conn, tok, co) ==
    IF ~tok THEN [connection |-> conn, ret |-> FALSE]
    ELSE IF co = "connect_error" THEN [connection |-> conn, ret |-> FALSE]
    ELSE IF co = "client_error" THEN [connection |-> TRUE, ret |-> FALSE]
    ELSE [connection |-> TRUE, ret |-> TRUE]

\* DatabricksService.execute_query
\* connected is self.connection on entry, connects the values returned by
\* the connect() calls made, issued whether cursor.execute was reached.
\* query is the text cursor.execute is handed when it is reached.
databricks_execute_query(q, conn, tok, co, qo) ==
    LET c == IF ~conn THEN connect(conn, tok, co).connection ELSE conn
        n == IF ~conn THEN <<connect(conn, tok, co).ret>> ELSE <<>>
    IN  IF ~c THEN [connection |-> c, connected |-> conn, connects |-> n,
                    issued |-> FALSE, query |-> q, ret |-> None]
        ELSE [connection |-> c, connected |-> conn, connects |-> n,
              issued |-> TRUE, query |-> q,
              ret |-> IF qo = "rows" THEN "DataFrame(databricks)" ELSE None]

\* The part of execute_query's doings kept in dbx
Exec(ex) ==
    [connected |-> ex.connected, connects |-> ex.connects,
     issued |-> ex.issued]

\* Column types of the statement create_table_if_not_exists builds: each
\* col_type of the schema is written into the statement as it is.
databricks_ddl(sch) == [i \in 1..Len(sch) |-> sch[i]]

\* DatabricksService.create_table_if_not_exists: the value execute_query
\* returns is stored in a local and not looked at.
create_table_if_not_exists(sch, conn, tok, co, qo) ==
    LET ex == databricks_execute_query(databricks_ddl(sch), conn, tok, co, qo)
    IN  [connection |-> ex.connection, ddl |-> databricks_ddl(sch),
         exec |-> Exec(ex), executed |-> ex.ret, ret |-> TRUE]

(***************************************************************************)
(* HybridDatabaseService                                                   *)
(***************************************************************************)
\* Variant of should_use_databricks that does not consult the credit monitor.
should_use_databricks_ignoring_budget(prefer, avail, fb) == prefer /\ avail

\* Variant of should_use_databricks that does not look at
\* databricks_available.
should_use_databricks_ignoring_availability(prefer, avail, fb) ==
    prefer /\ ~fb

\* should_use_databricks as execute_query computes it (lines 40-44)
should_use_databricks(prefer, avail, fb) == prefer /\ avail /\ ~fb

\* Variant of create_table_should_use_databricks that does not look at the
\* caller's preference.
create_table_should_use_databricks_any_caller(prefer, avail, fb) ==
    avail /\ ~fb

\* should_use_databricks as create_table computes it (lines 97-101): the
\* expression is written out a second time there.
create_table_should_use_databricks(prefer, avail, fb) ==
    prefer /\ avail /\ ~fb

\* str.replace(old, new) on a fragment of a query of Queries
replace(f, old, new) == IF f = old THEN new ELSE f

\* The three replace calls of _convert_to_postgresql on one fragment, in the
\* order of the source.
convert_fragment(f) ==
    replace(replace(replace(f, "USING DELTA", ""),
                    "OPTIMIZE", "-- OPTIMIZE not supported"),
            "DESCRIBE EXTENDED",
            "SELECT column_name, data_type FROM information_schema.columns WHERE")

\* HybridDatabaseService._convert_to_postgresql
convert_to_postgresql(q) == [i \in 1..Len(q) |-> convert_fragment(q[i])]

\* Variant of execute_postgresql_query that hands PostgreSQL the query as
\* the caller wrote it.
execute_postgresql_query_unconverted(q, po) ==
    [query |-> q,
     ret |-> IF po = "rows" THEN "DataFrame(postgresql)"
             ELSE IF po = "no_keys" THEN "DataFrame()"
             ELSE None]

\* HybridDatabaseService._execute_postgresql_query: query is the text
\* db.execute is handed.
execute_postgresql_query(q, po) ==
    [query |-> convert_to_postgresql(q),
     ret |-> IF po = "rows" THEN "DataFrame(postgresql)"
             ELSE IF po = "no_keys" THEN "DataFrame()"
             ELSE None]

\* str.upper() on the type names of Schemas
upper(t) ==
    CASE t = "int" -> "INT"
      [] t = "exotic_type" -> "EXOTIC_TYPE"
      [] OTHER -> t

\* type_mapping of _convert_to_postgresql_type
type_mapping ==
    [STRING |-> "TEXT", BIGINT |-> "BIGINT", INT |-> "INTEGER",
     DOUBLE |-> "DOUBLE PRECISION", FLOAT |-> "REAL", BOOLEAN |-> "BOOLEAN",
     TIMESTAMP |-> "TIMESTAMP", DATE |-> "DATE", DECIMAL |-> "DECIMAL"]

\* HybridDatabaseService._convert_to_postgresql_type
convert_to_postgresql_type(t) ==
    IF upper(t) \in DOMAIN type_mapping THEN type_mapping[upper(t)] ELSE "TEXT"

\* Column types of the statement _create_postgresql_table builds
postgresql_ddl(sch) ==
    [i \in 1..Len(sch) |-> convert_to_postgresql_type(sch[i])]

\* HybridDatabaseService._create_postgresql_table
create_postgresql_table(sch, po) ==
    [ddl |-> postgresql_ddl(sch), ret |-> IF po = "error" THEN FALSE ELSE TRUE]

\* One invocation of a backend by the router, and whether it failed (the
\* connector returned None, resp. _create_postgresql_table returned False).
Call(b, f) == [backend |-> b, failed |-> f]

\* Variant of execute_query that goes back to Databricks once more when the
\* PostgreSQL retry fails as well.
execute_query_retrying(q, prefer, avail, fb, conn, tok, co, qo, po) ==
    LET db == databricks_execute_query(q, conn, tok, co, qo)
        pg == execute_postgresql_query(q, po)
    IN  IF should_use_databricks(prefer, avail, fb)
        THEN IF db.ret # None
             THEN [connection |-> db.connection, exec |-> Exec(db),
                   invoked |-> <<Call("databricks", db.ret = None)>>,
                   sent |-> <<db.query>>,
                   ret |-> db.ret]
             ELSE IF pg.ret # None
             THEN [connection |-> db.connection, exec |-> Exec(db),
                   invoked |-> <<Call("databricks", db.ret = None),
                                 Call("postgresql", pg.ret = None)>>,
                   sent |-> <<db.query, pg.query>>,
                   ret |-> pg.ret]
             ELSE [connection |-> db.connection, exec |-> Exec(db),
                   invoked |-> <<Call("databricks", db.ret = None),
                                 Call("postgresql", pg.ret = None),
                                 Call("databricks", db.ret = None)>>,
                   sent |-> <<db.query, pg.query, db.query>>,
                   ret |-> db.ret]
        ELSE [connection |-> conn, exec |-> Absent,
              invoked |-> <<Call("postgresql", pg.ret = None)>>,
              sent |-> <<pg.query>>,
              ret |-> pg.ret]

\* Variant of execute_query that runs the query on PostgreSQL as well when
\* Databricks has answered, and returns the PostgreSQL rows when there are
\* any.
execute_query_shadowing(q, prefer, avail, fb, conn, tok, co, qo, po) ==
    LET db == databricks_execute_query(q, conn, tok, co, qo)
        pg == execute_postgresql_query(q, po)
    IN  IF should_use_databricks(prefer, avail, fb)
        THEN [connection |-> db.connection, exec |-> Exec(db),
              invoked |-> <<Call("databricks", db.ret = None),
                            Call("postgresql", pg.ret = None)>>,
              sent |-> <<db.query, pg.query>>,
              ret |-> IF pg.ret # None THEN pg.ret ELSE db.ret]
        ELSE [connection |-> conn, exec |-> Absent,
              invoked |-> <<Call("postgresql", pg.ret = None)>>,
              sent |-> <<pg.query>>,
              ret |-> pg.ret]

\* HybridDatabaseService.execute_query
execute_query(q, prefer, avail, fb, conn, tok, co, qo, po) ==
    LET db == databricks_execute_query(q, conn, tok, co, qo)
        pg == execute_postgresql_query(q, po)
    IN  IF should_use_databricks(prefer, avail, fb)
        THEN IF db.ret # None
             THEN [connection |-> db.connection, exec |-> Exec(db),
                   invoked |-> <<Call("databricks", db.ret = None)>>,
                   sent |-> <<db.query>>,
                   ret |-> db.ret]
             ELSE [connection |-> db.connection, exec |-> Exec(db),
                   invoked |-> <<Call("databricks", db.ret = None),
                                 Call("postgresql", pg.ret = None)>>,
                   sent |-> <<db.query, pg.query>>,
                   ret |-> pg.ret]
        ELSE [connection |-> conn, exec |-> Absent,
              invoked |-> <<Call("postgresql", pg.ret = None)>>,
              sent |-> <<pg.query>>,
              ret |-> pg.ret]

\* Variant of create_table that creates the table on PostgreSQL when the
\* Databricks DDL has failed.
create_table_falling_back(sch, prefer, avail, fb, conn, tok, co, qo, po) ==
    LET db == create_table_if_not_exists(sch, conn, tok, co, qo)
        pg == create_postgresql_table(sch, po)
    IN  IF create_table_should_use_databricks(prefer, avail, fb)
        THEN IF db.executed # None
             THEN [connection |-> db.connection, exec |-> db.exec,
                   invoked |-> <<Call("databricks", db.executed = None)>>,
                   ddl |-> db.ddl, ret |-> db.ret]
             ELSE [connection |-> db.connection, exec |-> db.exec,
                   invoked |-> <<Call("databricks", db.executed = None),
                                 Call("postgresql", ~pg.ret)>>,
                   ddl |-> pg.ddl, ret |-> pg.ret]
        ELSE [connection |-> conn, exec |-> Absent,
              invoked |-> <<Call("postgresql", ~pg.ret)>>,
              ddl |-> pg.ddl, ret |-> pg.ret]

\* HybridDatabaseService.create_table
create_table(sch, prefer, avail, fb, conn, tok, co, qo, po) ==
    LET db == create_table_if_not_exists(sch, conn, tok, co, qo)
        pg == create_postgresql_table(sch, po)
    IN  IF create_table_should_use_databricks(prefer, avail, fb)
        THEN [connection |-> db.connection, exec |-> db.exec,
              invoked |-> <<Call("databricks", db.executed = None)>>,
              ddl |-> db.ddl, ret |-> db.ret]
        ELSE [connection |-> conn, exec |-> Absent,
              invoked |-> <<Call("postgresql", ~pg.ret)>>,
              ddl |-> pg.ddl, ret |-> pg.ret]

\* Variant of get_status that names the active database from availability
\* alone.
get_status_ignoring_budget(ms, avail) ==
    LET chk == check_credit_usage(ms)
    IN  [mon |-> chk.mon,
         log |-> chk.log,
         ret |-> [databricks |-> [available |-> avail,
                                  fallback_mode |-> is_fallback_mode(chk.mon)],
                  postgresql |-> [available |-> TRUE, status |-> "fallback"],
                  credit_usage |-> chk.ret,
                  active_database |->
                      IF avail THEN "databricks" ELSE "postgresql",
                  recommendations |-> get_recommendations(chk.mon)]]

\* Variant of get_status that names the active database from the flag as it
\* was before the check of this call.
get_status_stale_flag(ms, avail) ==
    LET chk == check_credit_usage(ms)
    IN  [mon |-> chk.mon,
         log |-> chk.log,
         ret |-> [databricks |-> [available |-> avail,
                                  fallback_mode |-> is_fallback_mode(chk.mon)],
                  postgresql |-> [available |-> TRUE, status |-> "fallback"],
                  credit_usage |-> chk.ret,
                  active_database |->
                      IF avail /\ ~is_fallback_mode(ms)
                      THEN "databricks" ELSE "postgresql",
                  recommendations |-> get_recommendations(chk.mon)]]

\* Variant of get_status that resets the monitor once it has reported.
get_status_resetting(ms, avail) ==
    LET chk == check_credit_usage(ms)
    IN  [mon |-> reset_fallback(chk.mon).mon,
         log |-> chk.log,
         ret |-> [databricks |-> [available |-> avail,
                                  fallback_mode |-> is_fallback_mode(chk.mon)],
                  postgresql |-> [available |-> TRUE, status |-> "fallback"],
                  credit_usage |-> chk.ret,
                  active_database |->
                      IF avail /\ ~is_fallback_mode(chk.mon)
                      THEN "databricks" ELSE "postgresql",
                  recommendations |-> get_recommendations(chk.mon)]]

\* HybridDatabaseService.get_status: ms is the router's monitor on entry.
get_status(ms, avail) ==
    LET chk == check_credit_usage(ms)
    IN  [mon |-> chk.mon,
         log |-> chk.log,
         ret |-> [databricks |-> [available |-> avail,
                                  fallback_mode |-> is_fallback_mode(chk.mon)],
                  postgresql |-> [available |-> TRUE, status |-> "fallback"],
                  credit_usage |-> chk.ret,
                  active_database |->
                      IF avail /\ ~is_fallback_mode(chk.mon)
                      THEN "databricks" ELSE "postgresql",
                  recommendations |-> get_recommendations(chk.mon)]]

\* HybridDatabaseService.simulate_credit_usage
hybrid_simulate_credit_usage(ms, avail, p) ==
    LET sim == simulate_credit_usage(ms, p)
        st  == get_status(sim.mon, avail)
    IN  [mon |-> st.mon, log |-> sim.log \o st.log, ret |-> st.ret]

(***************************************************************************)
(* State machine                                                           *)
(***************************************************************************)
\* The record of an operation: usage_percent and prefer_databricks are the
\* arguments of the operations that take them (0 and FALSE otherwise).
Op(name, on, p, prefer) ==
    [name |-> name, on |-> on, usage_percent |-> p,
     prefer_databricks |-> prefer]

Init ==
    /\ \E thr \in Thresholds : mon = [m \in Monitors |-> NewMonitor(thr)]
    /\ databricks_available = FALSE
    /\ connection = FALSE
    /\ \E cr \in Credentials :
           /\ host = cr.host
           /\ token = cr.token
           /\ warehouse_id = cr.warehouse_id
    /\ call = Op("__init__", "router", 0, FALSE)
    /\ invoked = <<>>
    /\ result = None
    /\ created = FALSE
    /\ recs = <<>>
    /\ log = <<>>
    /\ snap = Absent
    /\ status = Absent
    /\ lastSim = <<>>
    /\ lastSide = [m \in Monitors |-> "unchecked"]
    /\ before = Absent
    /\ schema = <<>>
    /\ ddl = <<>>
    /\ dbx = Absent
    /\ lastConnect = "none"
    /\ query = <<>>
    /\ sent = <<>>
    /\ answer = FALSE

\* A monitor operation that overwrites the router monitor's usage ends the
\* period in which the router's last simulated value is the current one.
LastSimAfterWrite(m) == IF m = "hybrid" THEN <<>> ELSE lastSim

\* The comparison of check_credit_usage line 40
OverThreshold(ms) ==
    IF ms.credit_usage >= ms.threshold THEN "over" ELSE "under"

\* What the library can do when execute_query runs: connect() is reached
\* only while the connector holds no connection, and one value stands for
\* the library otherwise.
LazyConnectOutcomes ==
    IF connection THEN {"ok"} ELSE LibraryOutcomes(host, warehouse_id)

\* The outcome of the connector's latest connect() once an operation that
\* entered DatabricksService.execute_query (ex is its record, Absent when it
\* did not) has run.
LastConnectAfter(ex, prev) ==
    IF ex = Absent THEN prev
    ELSE IF ex.connects = <<>> THEN prev
    ELSE IF ex.connects[1] THEN "ok" ELSE "failed"

\* await monitor.check_credit_usage() by a client of instance m
CheckCreditUsage(m) ==
    LET r == check_credit_usage(mon[m])
    IN  /\ mon' = [mon EXCEPT ![m] = r.mon]
        /\ call' = Op("check_credit_usage", m, 0, FALSE)
        /\ invoked' = <<>>
        /\ result' = None
        /\ created' = FALSE
        /\ recs' = <<>>
        /\ log' = r.log
        /\ snap' = r.ret
        /\ status' = Absent
        /\ lastSide' = [lastSide EXCEPT ![m] = OverThreshold(mon[m])]
        /\ before' = Absent
        /\ schema' = <<>>
        /\ ddl' = <<>>
        /\ dbx' = Absent
        /\ query' = <<>>
        /\ sent' = <<>>
        /\ answer' = FALSE
        /\ UNCHANGED <<databricks_available, connection, token, lastSim,
                       host, warehouse_id, lastConnect>>

\* await monitor.simulate_credit_usage(p) by a client of instance m
SimulateCreditUsage(m, p) ==
    LET r == simulate_credit_usage(mon[m], p)
    IN  /\ mon' = [mon EXCEPT ![m] = r.mon]
        /\ call' = Op("simulate_credit_usage", m, p, FALSE)
        /\ invoked' = <<>>
        /\ result' = None
        /\ created' = FALSE
        /\ recs' = <<>>
        /\ log' = r.log
        /\ snap' = r.checked
        /\ status' = Absent
        /\ lastSim' = LastSimAfterWrite(m)
        /\ lastSide' = [lastSide EXCEPT ![m] = OverThreshold(r.mon)]
        /\ before' = Absent
        /\ schema' = <<>>
        /\ ddl' = <<>>
        /\ dbx' = Absent
        /\ query' = <<>>
        /\ sent' = <<>>
        /\ answer' = FALSE
        /\ UNCHANGED <<databricks_available, connection, token, host,
                       warehouse_id, lastConnect>>

\* monitor.reset_fallback() by a client of instance m
ResetFallback(m) ==
    LET r == reset_fallback(mon[m])
    IN  /\ mon' = [mon EXCEPT ![m] = r.mon]
        /\ call' = Op("reset_fallback", m, 0, FALSE)
        /\ invoked' = <<>>
        /\ result' = None
        /\ created' = FALSE
        /\ recs' = <<>>
        /\ log' = r.log
        /\ snap' = Absent
        /\ status' = Absent
        /\ lastSim' = LastSimAfterWrite(m)
        /\ lastSide' = [lastSide EXCEPT ![m] = "unchecked"]
        /\ before' = mon[m]
        /\ schema' = <<>>
        /\ ddl' = <<>>
        /\ dbx' = Absent
        /\ query' = <<>>
        /\ sent' = <<>>
        /\ answer' = FALSE
        /\ UNCHANGED <<databricks_available, connection, token, host,
                       warehouse_id, lastConnect>>

\* monitor.is_fallback_mode() by a client of instance m
IsFallbackMode(m) ==
    /\ call' = Op("is_fallback_mode", m, 0, FALSE)
    /\ invoked' = <<>>
    /\ result' = None
    /\ created' = FALSE
    /\ recs' = <<>>
    /\ log' = <<>>
    /\ snap' = Absent
    /\ status' = Absent
    /\ before' = Absent
    /\ schema' = <<>>
    /\ ddl' = <<>>
    /\ dbx' = Absent
    /\ query' = <<>>
    /\ sent' = <<>>
    /\ answer' = is_fallback_mode(mon[m])
    /\ UNCHANGED <<mon, databricks_available, connection, token, host,
                   warehouse_id, lastSim, lastSide, lastConnect>>

\* await monitor.check_credit_usage() by a client of instance m when the try
\* block raises at point at.  The logger is reached only in a call that
\* assigns the flag.
CheckCreditUsageRaises(m, at) ==
    LET r == check_credit_usage_raising(mon[m], at)
    IN  /\ (at = "logger") => (EventsOfCheck(mon[m]) # <<>>)
        /\ mon' = [mon EXCEPT ![m] = r.mon]
        /\ call' = Op("check_credit_usage_raised", m, 0, FALSE)
        /\ invoked' = <<>>
        /\ result' = None
        /\ created' = FALSE
        /\ recs' = <<>>
        /\ log' = r.log
        /\ snap' = r.ret
        /\ status' = Absent
        /\ lastSide' = IF at = "logger"
                       THEN [lastSide EXCEPT ![m] = OverThreshold(mon[m])]
                       ELSE lastSide
        /\ before' = Absent
        /\ schema' = <<>>
        /\ ddl' = <<>>
        /\ dbx' = Absent
        /\ query' = <<>>
        /\ sent' = <<>>
        /\ answer' = FALSE
        /\ UNCHANGED <<databricks_available, connection, token, host,
                       warehouse_id, lastSim, lastConnect>>

\* await monitor.get_recommendations() by a client of instance m
GetRecommendations(m) ==
    /\ call' = Op("get_recommendations", m, 0, FALSE)
    /\ invoked' = <<>>
    /\ result' = None
    /\ created' = FALSE
    /\ recs' = get_recommendations(mon[m])
    /\ log' = <<>>
    /\ snap' = Absent
    /\ status' = Absent
    /\ before' = Absent
    /\ schema' = <<>>
    /\ ddl' = <<>>
    /\ dbx' = Absent
    /\ query' = <<>>
    /\ sent' = <<>>
    /\ answer' = FALSE
    /\ UNCHANGED <<mon, databricks_available, connection, token, lastSim,
                   lastSide, host, warehouse_id, lastConnect>>

\* Variant of Initialize that takes Databricks for available when the
\* connector holds a connection, whatever connect() returned.
Initialize_trusting_connection(co) ==
    LET c == connect(connection, token, co)
        r == check_credit_usage(mon["hybrid"])
    IN  /\ mon' = [mon EXCEPT !["hybrid"] = r.mon]
        /\ databricks_available' = c.connection
        /\ connection' = c.connection
        /\ call' = Op("initialize", "router", 0, FALSE)
        /\ invoked' = <<>>
        /\ result' = None
        /\ created' = FALSE
        /\ recs' = <<>>
        /\ log' = r.log
        /\ snap' = r.ret
        /\ status' = Absent
        /\ lastSide' = [lastSide EXCEPT !["hybrid"] = OverThreshold(mon["hybrid"])]
        /\ before' = Absent
        /\ schema' = <<>>
        /\ ddl' = <<>>
        /\ dbx' = Absent
        /\ lastConnect' = IF c.ret THEN "ok" ELSE "failed"
        /\ query' = <<>>
        /\ sent' = <<>>
        /\ answer' = FALSE
        /\ UNCHANGED <<token, lastSim, host, warehouse_id>>

\* HybridDatabaseService.initialize
Initialize(co) ==
    LET c == connect(connection, token, co)
        r == check_credit_usage(mon["hybrid"])
    IN  /\ mon' = [mon EXCEPT !["hybrid"] = r.mon]
        /\ databricks_available' = c.ret
        /\ connection' = c.connection
        /\ call' = Op("initialize", "router", 0, FALSE)
        /\ invoked' = <<>>
        /\ result' = None
        /\ created' = FALSE
        /\ recs' = <<>>
        /\ log' = r.log
        /\ snap' = r.ret
        /\ status' = Absent
        /\ lastSide' = [lastSide EXCEPT !["hybrid"] = OverThreshold(mon["hybrid"])]
        /\ before' = Absent
        /\ schema' = <<>>
        /\ ddl' = <<>>
        /\ dbx' = Absent
        /\ lastConnect' = IF c.ret THEN "ok" ELSE "failed"
        /\ query' = <<>>
        /\ sent' = <<>>
        /\ answer' = FALSE
        /\ UNCHANGED <<token, lastSim, host, warehouse_id>>

\* Variant of ExecuteQuery that takes Databricks for unavailable once it has
\* failed a query.
ExecuteQuery_marking_unavailable(q, prefer, co, qo, po) ==
    LET r == execute_query(q, prefer, databricks_available,
                               is_fallback_mode(mon["hybrid"]),
                               connection, token, co, qo, po)
    IN  /\ connection' = r.connection
        /\ databricks_available' =
               (databricks_available /\ ~(r.invoked[1].backend = "databricks"
                                           /\ r.invoked[1].failed))
        /\ call' = Op("execute_query", "router", 0, prefer)
        /\ invoked' = r.invoked
        /\ result' = r.ret
        /\ created' = FALSE
        /\ recs' = <<>>
        /\ log' = <<>>
        /\ snap' = Absent
        /\ status' = Absent
        /\ before' = Absent
        /\ schema' = <<>>
        /\ ddl' = <<>>
        /\ dbx' = r.exec
        /\ lastConnect' = LastConnectAfter(r.exec, lastConnect)
        /\ query' = q
        /\ sent' = r.sent
        /\ answer' = FALSE
        /\ UNCHANGED <<mon, token, lastSim, lastSide,
                       host, warehouse_id>>

\* HybridDatabaseService.execute_query(query, prefer_databricks)
ExecuteQuery(q, prefer, co, qo, po) ==
    LET r == execute_query(q, prefer, databricks_available,
                               is_fallback_mode(mon["hybrid"]),
                               connection, token, co, qo, po)
    IN  /\ connection' = r.connection
        /\ call' = Op("execute_query", "router", 0, prefer)
        /\ invoked' = r.invoked
        /\ result' = r.ret
        /\ created' = FALSE
        /\ recs' = <<>>
        /\ log' = <<>>
        /\ snap' = Absent
        /\ status' = Absent
        /\ before' = Absent
        /\ schema' = <<>>
        /\ ddl' = <<>>
        /\ dbx' = r.exec
        /\ lastConnect' = LastConnectAfter(r.exec, lastConnect)
        /\ query' = q
        /\ sent' = r.sent
        /\ answer' = FALSE
        /\ UNCHANGED <<mon, databricks_available, token, lastSim, lastSide,
                       host, warehouse_id>>

\* HybridDatabaseService.create_table(table_name, schema, prefer_databricks)
CreateTable(sch, prefer, co, qo, po) ==
    LET r == create_table(sch, prefer, databricks_available,
                              is_fallback_mode(mon["hybrid"]),
                              connection, token, co, qo, po)
    IN  /\ connection' = r.connection
        /\ call' = Op("create_table", "router", 0, prefer)
        /\ invoked' = r.invoked
        /\ result' = None
        /\ created' = r.ret
        /\ recs' = <<>>
        /\ log' = <<>>
        /\ snap' = Absent
        /\ status' = Absent
        /\ before' = Absent
        /\ schema' = sch
        /\ ddl' = r.ddl
        /\ dbx' = r.exec
        /\ lastConnect' = LastConnectAfter(r.exec, lastConnect)
        /\ query' = <<>>
        /\ sent' = <<>>
        /\ answer' = FALSE
        /\ UNCHANGED <<mon, databricks_available, token, lastSim, lastSide,
                       host, warehouse_id>>

\* await databricks.execute_query(query) by a client of the connector
DatabricksExecuteQuery(q, co, qo) ==
    LET r == databricks_execute_query(q, connection, token, co, qo)
    IN  /\ connection' = r.connection
        /\ call' = Op("databricks_execute_query", "connector", 0, FALSE)
        /\ invoked' = <<Call("databricks", r.ret = None)>>
        /\ result' = r.ret
        /\ created' = FALSE
        /\ recs' = <<>>
        /\ log' = <<>>
        /\ snap' = Absent
        /\ status' = Absent
        /\ before' = Absent
        /\ schema' = <<>>
        /\ ddl' = <<>>
        /\ dbx' = Exec(r)
        /\ lastConnect' = LastConnectAfter(Exec(r), lastConnect)
        /\ query' = q
        /\ sent' = <<r.query>>
        /\ answer' = FALSE
        /\ UNCHANGED <<mon, databricks_available, token, host, warehouse_id,
                       lastSim, lastSide>>

\* await databricks.create_table_if_not_exists(table_name, schema) by a
\* client of the connector
DatabricksCreateTableIfNotExists(sch, co, qo) ==
    LET r == create_table_if_not_exists(sch, connection, token, co, qo)
    IN  /\ connection' = r.connection
        /\ call' = Op("create_table_if_not_exists", "connector", 0, FALSE)
        /\ invoked' = <<Call("databricks", r.executed = None)>>
        /\ result' = None
        /\ created' = r.ret
        /\ recs' = <<>>
        /\ log' = <<>>
        /\ snap' = Absent
        /\ status' = Absent
        /\ before' = Absent
        /\ schema' = sch
        /\ ddl' = r.ddl
        /\ dbx' = r.exec
        /\ lastConnect' = LastConnectAfter(r.exec, lastConnect)
        /\ query' = <<>>
        /\ sent' = <<>>
        /\ answer' = FALSE
        /\ UNCHANGED <<mon, databricks_available, token, host, warehouse_id,
                       lastSim, lastSide>>

\* HybridDatabaseService.get_status (GET /status calls exactly this)
GetStatus ==
    LET r == get_status(mon["hybrid"], databricks_available)
    IN  /\ mon' = [mon EXCEPT !["hybrid"] = r.mon]
        /\ call' = Op("get_status", "router", 0, FALSE)
        /\ invoked' = <<>>
        /\ result' = None
        /\ created' = FALSE
        /\ recs' = <<>>
        /\ log' = r.log
        /\ snap' = r.ret.credit_usage
        /\ status' = r.ret
        /\ lastSide' = [lastSide EXCEPT !["hybrid"] = OverThreshold(mon["hybrid"])]
        /\ before' = Absent
        /\ schema' = <<>>
        /\ ddl' = <<>>
        /\ dbx' = Absent
        /\ query' = <<>>
        /\ sent' = <<>>
        /\ answer' = FALSE
        /\ UNCHANGED <<databricks_available, connection, token, lastSim,
                       host, warehouse_id, lastConnect>>

\* HybridDatabaseService.simulate_credit_usage (POST /credits/simulate calls
\* exactly this, with 0 <= p <= 100)
HybridSimulateCreditUsage(p) ==
    LET r == hybrid_simulate_credit_usage(mon["hybrid"],
                                              databricks_available, p)
    IN  /\ mon' = [mon EXCEPT !["hybrid"] = r.mon]
        /\ call' = Op("hybrid_simulate_credit_usage", "router", p, FALSE)
        /\ invoked' = <<>>
        /\ result' = None
        /\ created' = FALSE
        /\ recs' = <<>>
        /\ log' = r.log
        /\ snap' = r.ret.credit_usage
        /\ status' = r.ret
        /\ lastSim' = <<p>>
        /\ lastSide' = [lastSide EXCEPT !["hybrid"] = OverThreshold(r.mon)]
        /\ before' = Absent
        /\ schema' = <<>>
        /\ ddl' = <<>>
        /\ dbx' = Absent
        /\ query' = <<>>
        /\ sent' = <<>>
        /\ answer' = FALSE
        /\ UNCHANGED <<databricks_available, connection, token, host,
                       warehouse_id, lastConnect>>

\* POST /fallback/reset: routers/databricks.py reset_fallback_mode resets the
\* module-level credit_monitor and then reports hybrid_db.get_status().
ResetFallbackMode ==
    LET rs == reset_fallback(mon["global"])
        st == get_status(mon["hybrid"], databricks_available)
    IN  /\ mon' = [mon EXCEPT !["global"] = rs.mon, !["hybrid"] = st.mon]
        /\ call' = Op("reset_fallback_mode", "control", 0, FALSE)
        /\ invoked' = <<>>
        /\ result' = None
        /\ created' = FALSE
        /\ recs' = <<>>
        /\ log' = rs.log \o st.log
        /\ snap' = st.ret.credit_usage
        /\ status' = st.ret
        /\ lastSide' = [lastSide EXCEPT !["global"] = "unchecked",
                                        !["hybrid"] = OverThreshold(mon["hybrid"])]
        /\ before' = mon["global"]
        /\ schema' = <<>>
        /\ ddl' = <<>>
        /\ dbx' = Absent
        /\ query' = <<>>
        /\ sent' = <<>>
        /\ answer' = FALSE
        /\ UNCHANGED <<databricks_available, connection, token, lastSim,
                       host, warehouse_id, lastConnect>>

Next ==
    \/ \E m \in Monitors : CheckCreditUsage(m)
    \/ \E m \in Monitors, at \in RaisePoints : CheckCreditUsageRaises(m, at)
    \/ \E p \in Percents : SimulateCreditUsage("hybrid", p)
    \/ \E m \in Monitors : IsFallbackMode(m)
    \/ \E m \in Monitors : ResetFallback(m)
    \/ \E m \in Monitors : GetRecommendations(m)
    \/ \E co \in LibraryOutcomes(host, warehouse_id) : Initialize(co)
    \/ \E q \in Queries, prefer \in BOOLEAN, co \in LazyConnectOutcomes,
          qo \in QueryOutcomes, po \in PgOutcomes :
          ExecuteQuery(q, prefer, co, qo, po)
    \/ \E sch \in Schemas, prefer \in BOOLEAN, co \in LazyConnectOutcomes,
          qo \in QueryOutcomes, po \in PgDdlOutcomes :
          CreateTable(sch, prefer, co, qo, po)
    \/ \E q \in Queries, co \in LazyConnectOutcomes, qo \in QueryOutcomes :
          DatabricksExecuteQuery(q, co, qo)
    \/ \E sch \in Schemas, co \in LazyConnectOutcomes, qo \in QueryOutcomes :
          DatabricksCreateTableIfNotExists(sch, co, qo)
    \/ GetStatus
    \/ \E p \in Percents : HybridSimulateCreditUsage(p)
    \/ ResetFallbackMode

Spec == Init /\ [][Next]_vars

(***************************************************************************)
(* Routing of execute_query                                                *)
(***************************************************************************)
\* C1: in every execute_query call the first backend invoked is Databricks
\* if and only if prefer_databricks is true, databricks_available is true
\* and the router monitor's fallback_mode is false; in every other case
\* PostgreSQL is invoked first and Databricks is not invoked at all.
\* (execute_query leaves the three inputs as it found them, so they are read
\* from the state the call returns in.)
C1_RoutingRule ==
    call.name = "execute_query" =>
        LET primaryFirst == /\ call.prefer_databricks
                            /\ databricks_available
                            /\ ~mon["hybrid"].fallback_mode
        IN  /\ Len(invoked) >= 1
            /\ (invoked[1].backend = "databricks") <=> primaryFirst
            /\ ~primaryFirst =>
                  /\ invoked[1].backend = "postgresql"
                  /\ \A i \in DOMAIN invoked : invoked[i].backend # "databricks"

\* A preferred-primary call with Databricks available is diverted to
\* PostgreSQL because the budget flag is set.
C1_Witness ==
    /\ call.name = "execute_query"
    /\ call.prefer_databricks
    /\ databricks_available
    /\ mon["hybrid"].fallback_mode
    /\ Len(invoked) = 1
    /\ invoked[1].backend = "postgresql"

\* C2: within one execute_query call Databricks is invoked at most once and
\* PostgreSQL at most once, nothing is invoked after PostgreSQL has
\* returned, and when Databricks was invoked and returned None the second
\* backend invoked is PostgreSQL.
C2_SingleFallbackRetry ==
    call.name = "execute_query" =>
        /\ Cardinality({i \in DOMAIN invoked :
                           invoked[i].backend = "databricks"}) <= 1
        /\ Cardinality({i \in DOMAIN invoked :
                           invoked[i].backend = "postgresql"}) <= 1
        /\ \A i \in DOMAIN invoked :
              invoked[i].backend = "postgresql" => i = Len(invoked)
        /\ (invoked[1].backend = "databricks" /\ invoked[1].failed) =>
              /\ Len(invoked) = 2
              /\ invoked[2].backend = "postgresql"

\* Databricks failed, PostgreSQL was tried once and failed as well.
C2_Witness ==
    /\ call.name = "execute_query"
    /\ Len(invoked) = 2
    /\ invoked[1] = Call("databricks", TRUE)
    /\ invoked[2] = Call("postgresql", TRUE)
    /\ result = None

\* C3: when every backend invoked by execute_query failed the caller gets
\* None, and create_table returns False when the backend it chose failed
\* (the Databricks DDL execution returned None, or the PostgreSQL DDL raised);
\* neither call lets an exception escape, i.e. each returns a value.
C3_FailureSignals ==
    /\ (/\ call.name = "execute_query"
        /\ \A i \in DOMAIN invoked : invoked[i].failed) => result = None
    /\ call.name = "execute_query" =>
          result \in {None, "DataFrame(databricks)", "DataFrame(postgresql)",
                      "DataFrame()"}
    /\ call.name = "create_table" => created \in BOOLEAN
    /\ (call.name = "create_table" /\ invoked[1].failed) => created = FALSE

(***************************************************************************)
(* Budget monitor                                                          *)
(***************************************************************************)
\* Operations during which check_credit_usage ran, so that snap holds the
\* snapshot it returned.
ChecksUsage ==
    {"check_credit_usage", "simulate_credit_usage", "initialize",
     "get_status", "hybrid_simulate_credit_usage", "reset_fallback_mode"}

\* Operations that return a status, so that status holds it.
ReturnsStatus ==
    {"get_status", "hybrid_simulate_credit_usage", "reset_fallback_mode"}

\* The monitor instance an operation checks.
Checked(c) == IF c.on \in Monitors THEN c.on ELSE "hybrid"

\* C4: every snapshot returned by check_credit_usage has fallback_mode false
\* when its usage_percent is below the threshold and true when it is at or
\* above the threshold.
C4_SnapshotFlagMatchesUsage ==
    call.name \in ChecksUsage =>
        (snap.fallback_mode <=> snap.usage_percent >= snap.threshold)

\* C5: in every operation that checks monitor m, the activation warning is
\* logged exactly when fallback_mode of m goes from false to true and the
\* deactivation info exactly when it goes from true to false, once each; and
\* a check that finds credit_usage on the side of the threshold where the
\* previous check of m found it logs neither and leaves fallback_mode (and,
\* when the operation is not a simulation, credit_usage) as it was.
C5_EdgeTriggered ==
    [][call'.name \in ChecksUsage =>
        LET m == Checked(call')
            warn == Cardinality({i \in DOMAIN log' : log'[i] = WarnActivate})
            info == Cardinality({i \in DOMAIN log' : log'[i] = InfoDeactivate})
        IN  /\ warn = IF ~mon[m].fallback_mode /\ mon'[m].fallback_mode
                      THEN 1 ELSE 0
            /\ info = IF mon[m].fallback_mode /\ ~mon'[m].fallback_mode
                      THEN 1 ELSE 0
            /\ (lastSide[m] # "unchecked" /\ lastSide'[m] = lastSide[m]) =>
                  /\ warn = 0
                  /\ info = 0
                  /\ mon'[m].fallback_mode = mon[m].fallback_mode
                  /\ call'.name \notin {"simulate_credit_usage",
                                        "hybrid_simulate_credit_usage"} =>
                         mon'[m].credit_usage = mon[m].credit_usage
    ]_vars

\* A check repeated while the usage is still at or above the threshold: the
\* flag stays set and nothing is logged.
C5_Witness ==
    /\ call.name = "check_credit_usage"
    /\ lastSide[call.on] = "over"
    /\ mon[call.on].fallback_mode
    /\ mon[call.on].credit_usage = Pct(85)
    /\ snap.fallback_mode
    /\ log = <<>>

\* C6: when simulate_credit_usage(p) returns, credit_usage is p clamped to
\* [0,100] and fallback_mode equals (clamped p >= threshold); a
\* check_credit_usage that follows on the same monitor, also the one the
\* router's simulate_credit_usage makes through get_status, reports the
\* clamped p as usage_percent.
C6_SimulateClamps ==
    /\ [](call.name \in {"simulate_credit_usage",
                         "hybrid_simulate_credit_usage"} =>
            LET m == Checked(call)
                c == IF call.usage_percent < 0 THEN 0
                     ELSE IF call.usage_percent > 10000 THEN 10000 ELSE call.usage_percent
            IN  /\ mon[m].credit_usage = c
                /\ mon[m].fallback_mode <=> c >= mon[m].threshold
                /\ call.name = "hybrid_simulate_credit_usage" =>
                       status.credit_usage.usage_percent = c)
    /\ [][(/\ call.name = "simulate_credit_usage"
           /\ call'.name = "check_credit_usage"
           /\ call'.on = call.on) =>
            snap'.usage_percent = IF call.usage_percent < 0 THEN 0
                                  ELSE IF call.usage_percent > 10000 THEN 10000
                                  ELSE call.usage_percent]_vars

\* The router simulated 150 with threshold 80: the check made afterwards by
\* get_status reports 100 and the flag is set.
C6_Witness ==
    /\ call.name = "hybrid_simulate_credit_usage"
    /\ call.usage_percent = Pct(150)
    /\ mon["hybrid"].threshold = Pct(80)
    /\ status.credit_usage.usage_percent = Pct(100)
    /\ status.credit_usage.fallback_mode
    /\ mon["hybrid"].fallback_mode

\* C7: reset_fallback leaves credit_usage 0 and fallback_mode false on the
\* monitor it is called on, whatever it found, and logs neither the
\* activation warning nor the deactivation info.
C7_ResetForces ==
    /\ call.name = "reset_fallback" =>
          /\ mon[call.on].credit_usage = 0
          /\ ~mon[call.on].fallback_mode
          /\ \A i \in DOMAIN log :
                log[i] # WarnActivate /\ log[i] # InfoDeactivate
    /\ call.name = "reset_fallback_mode" =>
          /\ mon["global"].credit_usage = 0
          /\ ~mon["global"].fallback_mode

\* reset_fallback found the monitor in fallback mode at 100% usage.
C7_Witness ==
    /\ call.name = "reset_fallback"
    /\ before.fallback_mode
    /\ before.credit_usage = Pct(100)
    /\ mon[call.on].credit_usage = 0
    /\ ~mon[call.on].fallback_mode
    /\ log = <<InfoReset>>

\* C8: get_recommendations returns exactly one string: the critical one iff
\* usage > 90, the warning one iff 75 < usage <= 90, the monitor one iff
\* 50 < usage <= 75, the normal one iff usage <= 50.
C8_RecommendationTiers ==
    call.name = "get_recommendations" =>
        LET u == mon[call.on].credit_usage
        IN  /\ Len(recs) = 1
            /\ recs[1] = Critical <=> u > 9000
            /\ recs[1] = Warning <=> (7500 < u /\ u <= 9000)
            /\ recs[1] = Monitor <=> (5000 < u /\ u <= 7500)
            /\ recs[1] = Normal <=> u <= 5000

\* At exactly 90% the warning tier is returned, not the critical one.
C8_Witness ==
    /\ call.name = "get_recommendations"
    /\ mon[call.on].credit_usage = Pct(90)
    /\ recs = <<Warning>>

(***************************************************************************)
(* Status and control surface                                              *)
(***************************************************************************)
\* C9 as stated: once the router's simulate_credit_usage(p) ran with
\* p >= threshold, the status it returns and every status returned while
\* that usage stands name postgresql as active_database, whatever
\* databricks_available is, and carry the recommendation of p's tier.
C9_FallbackAfterSimulate_AsStated ==
    (call.name \in ReturnsStatus /\ lastSim # <<>>) =>
        LET p == lastSim[1]
        IN  p >= mon["hybrid"].threshold =>
              /\ status.active_database = "postgresql"
              /\ status.recommendations =
                    <<IF p > 9000 THEN Critical
                      ELSE IF p > 7500 THEN Warning
                      ELSE IF p > 5000 THEN Monitor
                      ELSE Normal>>

\* C9 (amended): the same, for p whose value clamped to [0,100] is at or
\* above the threshold.
C9_FallbackAfterSimulate ==
    (call.name \in ReturnsStatus /\ lastSim # <<>>) =>
        LET p == lastSim[1]
            c == IF p < 0 THEN 0 ELSE IF p > 10000 THEN 10000 ELSE p
        IN  c >= mon["hybrid"].threshold =>
              /\ status.active_database = "postgresql"
              /\ status.recommendations =
                    <<IF p > 9000 THEN Critical
                      ELSE IF p > 7500 THEN Warning
                      ELSE IF p > 5000 THEN Monitor
                      ELSE Normal>>

\* Threshold 80, the router simulated 85, Databricks is available: a later
\* get_status names postgresql and recommends the warning tier.
C9_Witness ==
    /\ call.name = "get_status"
    /\ lastSim = <<Pct(85)>>
    /\ mon["hybrid"].threshold = Pct(80)
    /\ databricks_available
    /\ status.active_database = "postgresql"
    /\ status.recommendations = <<Warning>>

\* C10: the control surface's reset acts on the monitor the router
\* consults: when POST /fallback/reset follows a router simulation with
\* p >= threshold, the status it reports has usage_percent 0 and
\* fallback_mode false, and the router's monitor no longer diverts a
\* preferred-primary call.
C10_ResetReachesRouterMonitor ==
    (/\ call.name = "reset_fallback_mode"
     /\ lastSim # <<>>
     /\ lastSim[1] >= mon["hybrid"].threshold) =>
        /\ status.credit_usage.usage_percent = 0
        /\ ~status.credit_usage.fallback_mode
        /\ ~is_fallback_mode(mon["hybrid"])

(***************************************************************************)
(* Routing of create_table                                                 *)
(***************************************************************************)
\* C11: create_table sends its DDL first to the backend that execute_query
\* would invoke first for the same prefer_databricks, databricks_available
\* and fallback_mode, whatever the backends answer.  (create_table leaves
\* the three inputs as it found them, so they are read in the state it
\* ends in.)
C11_CreateTableRoutesAsExecuteQuery ==
    call.name = "create_table" =>
        /\ Len(invoked) = 1
        /\ \A q \in Queries, co \in ConnectOutcomes, qo \in QueryOutcomes,
              po \in PgOutcomes :
               invoked[1].backend =
                   execute_query(q, call.prefer_databricks,
                                 databricks_available,
                                 is_fallback_mode(mon["hybrid"]),
                                 connection, token, co, qo, po).invoked[1].backend

\* create_table was called with prefer_databricks false while Databricks was
\* available and inside the budget, and went to PostgreSQL.
C11_Witness ==
    /\ call.name = "create_table"
    /\ ~call.prefer_databricks
    /\ databricks_available
    /\ ~is_fallback_mode(mon["hybrid"])
    /\ invoked[1].backend = "postgresql"

(***************************************************************************)
(* Status report                                                           *)
(***************************************************************************)
\* C12: the status get_status returns names "databricks" as active_database
\* if and only if databricks_available is true and fallback_mode is false,
\* where fallback_mode is the flag as the check made inside the same call
\* left it (true exactly when credit_usage >= threshold); in every other
\* case it names "postgresql".
C12_ActiveDatabase ==
    call.name = "get_status" =>
        LET ms == mon["hybrid"]
        IN  /\ ms.fallback_mode <=> (ms.credit_usage >= ms.threshold)
            /\ status.active_database \in {"databricks", "postgresql"}
            /\ status.active_database = "databricks" <=>
                   (databricks_available /\ ~ms.fallback_mode)

\* get_status found the flag false with credit_usage at the threshold,
\* raised it in its check and reported PostgreSQL although Databricks was
\* available.
C12_Witness ==
    /\ call.name = "get_status"
    /\ databricks_available
    /\ log = <<WarnActivate>>
    /\ status.active_database = "postgresql"

(***************************************************************************)
(* Connector                                                               *)
(***************************************************************************)
\* C13: create_table_if_not_exists of the connector returns true when the
\* DDL was executed and false when its execution failed, that is when
\* execute_query returned None (a failed connect included).
C13_CreateTableIfNotExistsReports ==
    call.name = "create_table_if_not_exists" =>
        (created <=> ~invoked[1].failed)

\* C14: for a schema with a column type the mapping does not list, the DDL
\* create_table builds for the backend it selected has one type per column
\* and carries the generic text type of that backend (TEXT on PostgreSQL,
\* STRING on Databricks) in the place of the unlisted name.
C14_UnknownTypeBecomesText ==
    call.name = "create_table" =>
        /\ Len(ddl) = Len(schema)
        /\ \A i \in 1..Len(schema) :
               upper(schema[i]) \notin DOMAIN type_mapping =>
                   ddl[i] = IF invoked[1].backend = "databricks"
                            THEN "STRING" ELSE "TEXT"

C17_LazyConnectOnce ==
    (dbx # Absent /\ ~dbx.connected) =>
        /\ Len(dbx.connects) = 1
        /\ (~dbx.connects[1]) => (~dbx.issued /\ invoked[1].failed)

C19_SnapshotFields ==
    (call.name \in ChecksUsage) =>
        (/\ snap.credits_used * 100 = snap.usage_percent * snap.monthly_limit
         /\ snap.monthly_limit = MonthlyLimit
         /\ snap.threshold = mon[Checked(call)].threshold
         /\ snap.threshold \in Thresholds
         /\ snap.status = "monitoring")

\* A snapshot at 50.01% usage of a monitor with threshold 80.
C19_Witness ==
    /\ call.name = "check_credit_usage"
    /\ snap.usage_percent = 5001
    /\ snap.credits_used = 5001
    /\ snap.threshold = Pct(80)

\* C20: get_status invokes neither backend and does not touch the connector;
\* it leaves credit_usage, threshold and databricks_available as they were,
\* and it changes fallback_mode only when the flag differed from
\* (credit_usage >= threshold) before the call.
C20_GetStatusFrame ==
    [][(call'.name = "get_status") =>
          (/\ invoked' = <<>>
           /\ dbx' = Absent
           /\ connection' = connection
           /\ databricks_available' = databricks_available
           /\ mon'["hybrid"].credit_usage = mon["hybrid"].credit_usage
           /\ mon'["hybrid"].threshold = mon["hybrid"].threshold
           /\ mon'["global"] = mon["global"]
           /\ (mon'["hybrid"].fallback_mode # mon["hybrid"].fallback_mode) =>
                  (mon["hybrid"].fallback_mode #
                       (mon["hybrid"].credit_usage >= mon["hybrid"].threshold)))
      ]_vars

\* get_status on a router without Databricks found the flag false with
\* credit_usage at the threshold and raised it.
C20_Witness ==
    /\ call.name = "get_status"
    /\ ~databricks_available
    /\ ~snap.fallback_mode
    /\ mon["hybrid"].fallback_mode
    /\ log = <<WarnActivate>>

(***************************************************************************)
(* Frame conditions of the read-only and routing operations                *)
(***************************************************************************)
\* C21: is_fallback_mode returns the flag as it is stored, assigns no field
\* of the monitor and logs nothing, also when the stored flag differs from
\* (credit_usage >= threshold).
C21_IsFallbackModeReadsFlag ==
    [][(call'.name = "is_fallback_mode") =>
          (/\ mon' = mon
           /\ log' = <<>>
           /\ answer' = mon[call'.on].fallback_mode)]_vars

\* is_fallback_mode answered false for a monitor whose credit_usage is at
\* its threshold and whose flag no check has raised yet.
C21_Witness ==
    /\ call.name = "is_fallback_mode"
    /\ ~answer
    /\ mon[call.on].credit_usage >= mon[call.on].threshold

\* C22: execute_query and create_table of the router leave credit_usage,
\* fallback_mode and databricks_available as they found them, also when
\* Databricks failed; so when a call that preferred Databricks and tried it
\* first is followed by another call that prefers Databricks, that call
\* tries Databricks first again.
C22_RoutingKeepsNoState ==
    [][(call'.name \in {"execute_query", "create_table"}) =>
          (/\ mon' = mon
           /\ databricks_available' = databricks_available
           /\ (/\ call.name \in {"execute_query", "create_table"}
               /\ invoked[1].backend = "databricks"
               /\ call'.prefer_databricks) =>
                  (invoked'[1].backend = "databricks"))]_vars

\* An execute_query that preferred Databricks got None from it and fell
\* back, and Databricks is still available and inside the budget.
C22_Witness ==
    /\ call.name = "execute_query"
    /\ call.prefer_databricks
    /\ invoked = <<Call("databricks", TRUE), Call("postgresql", FALSE)>>
    /\ databricks_available
    /\ ~mon["hybrid"].fallback_mode

\* C23: in every execute_query Databricks is handed the caller's query text
\* as it is and PostgreSQL the text _convert_to_postgresql makes of it, in
\* which none of the three Databricks fragments is left; this holds when
\* PostgreSQL is chosen at once and when it is the retry after Databricks.
C23_RewriteOnlyForPostgresql ==
    (call.name = "execute_query") =>
        (/\ Len(sent) = Len(invoked)
         /\ \A i \in 1..Len(invoked) :
                IF invoked[i].backend = "databricks"
                THEN sent[i] = query
                ELSE /\ sent[i] = convert_to_postgresql(query)
                     /\ \A j \in 1..Len(sent[i]) :
                            sent[i][j] \notin {"USING DELTA", "OPTIMIZE",
                                               "DESCRIBE EXTENDED"})

\* A query with Databricks fragments went to Databricks as written, failed
\* there and went to PostgreSQL rewritten.
C23_Witness ==
    /\ call.name = "execute_query"
    /\ Len(invoked) = 2
    /\ Len(query) = 7
    /\ query[2] = "USING DELTA"
    /\ sent[1] = query
    /\ sent[2][2] = ""
    /\ sent[2][4] = "-- OPTIMIZE not supported"

\* C24: create_table invokes exactly one backend: Databricks alone when it
\* is routed there, whatever becomes of the DDL, and PostgreSQL alone, with
\* the connector not entered, otherwise; the one statement built is the one
\* of that backend.
C24_CreateTableOneBackend ==
    (call.name = "create_table") =>
        (/\ Len(invoked) = 1
         /\ (invoked[1].backend = "databricks") <=> (dbx # Absent)
         /\ ddl = IF invoked[1].backend = "databricks"
                  THEN databricks_ddl(schema) ELSE postgresql_ddl(schema))

\* create_table went to Databricks, the DDL failed there, and PostgreSQL
\* was not invoked.
C24_Witness ==
    /\ call.name = "create_table"
    /\ invoked = <<Call("databricks", TRUE)>>
    /\ dbx.issued

\* C25: a check_credit_usage whose try block raises returns a snapshot with
\* usage_percent 100 and fallback_mode true, and the monitor's fallback_mode
\* is true afterwards.
C25_FailedCheckForcesFallback ==
    (call.name = "check_credit_usage_raised") =>
        (/\ snap.usage_percent = Pct(100)
         /\ snap.fallback_mode
         /\ mon[call.on].fallback_mode)

\* C26: when execute_query goes to Databricks and Databricks returns rows,
\* the caller gets those rows and PostgreSQL is not invoked.
C26_PrimaryResultReturned ==
    (/\ call.name = "execute_query"
     /\ invoked[1].backend = "databricks"
     /\ ~invoked[1].failed) =>
        (/\ result = "DataFrame(databricks)"
         /\ Len(invoked) = 1
         /\ sent = <<query>>)

\* execute_query returned the rows of Databricks.
C26_Witness ==
    /\ call.name = "execute_query"
    /\ invoked = <<Call("databricks", FALSE)>>
    /\ result = "DataFrame(databricks)"

\* C27: in every status get_status returns, credit_usage.fallback_mode
\* equals databricks.fallback_mode, and it is false when active_database is
\* "databricks".
C27_StatusFlagsAgree ==
    (call.name \in ReturnsStatus) =>
        (/\ status.credit_usage.fallback_mode =
                status.databricks.fallback_mode
         /\ (status.active_database = "databricks") =>
                ~status.credit_usage.fallback_mode)

\* C28: databricks_available is false before the first initialize and after
\* an initialize whose connect did not succeed, and stays false until an
\* initialize succeeds; while it is false execute_query and create_table
\* invoke PostgreSQL only and every status names "postgresql" as
\* active_database.
C28_UnavailableUntilInitialized ==
    /\ (call.name = "__init__") => ~databricks_available
    /\ [](~databricks_available =>
            /\ (call.name \in {"execute_query", "create_table"}) =>
                   (\A i \in 1..Len(invoked) :
                       invoked[i].backend = "postgresql")
            /\ (call.name \in ReturnsStatus) =>
                   (status.active_database = "postgresql"))
    /\ [][IF call'.name = "initialize"
           THEN (lastConnect' # "ok") => ~databricks_available'
           ELSE ~databricks_available => ~databricks_available']_vars

\* With all credentials set a connect has failed after sql.connect went
\* through; Databricks is unavailable and an execute_query that prefers it
\* was served by PostgreSQL alone.
C28_Witness ==
    /\ host /\ token /\ warehouse_id
    /\ connection
    /\ lastConnect = "failed"
    /\ ~databricks_available
    /\ call.name = "execute_query"
    /\ call.prefer_databricks
    /\ invoked = <<Call("postgresql", FALSE)>>

\* C29: whenever databricks_available is true the connector holds a
\* connection, and an operation of the router that enters the connector's
\* execute_query finds the connection there and makes no connect().
C29_AvailableImpliesConnection ==
    /\ databricks_available => connection
    /\ (call.on = "router" /\ dbx # Absent) =>
           (dbx.connected /\ dbx.connects = <<>>)

\* The router's execute_query entered the connector, which held its
\* connection and issued the query.
C29_Witness ==
    /\ call.name = "execute_query"
    /\ dbx # Absent
    /\ dbx.connected
    /\ dbx.issued

\* C30: credit_usage of every monitor is within [0, 100] in every state.
C30_UsageInRange ==
    \A m \in Monitors :
        /\ 0 <= mon[m].credit_usage
        /\ mon[m].credit_usage <= Pct(100)

\* simulate_credit_usage(-5) left the monitor at 0.
C30_Witness ==
    /\ call.name = "simulate_credit_usage"
    /\ call.usage_percent = Pct(-5)
    /\ mon[call.on].credit_usage = 0

====
